---- MODULE Spec2Model ----
(***************************************************************************)
(* Model of the include-sql procedural macro (proc-macro/src/lib.rs).      *)
(*                                                                         *)
(* A parsed statement (sql::Stmt) is expanded by include_sql into          *)
(*   - for a statement without list parameters: a struct and its argument  *)
(*     iterator (add_pos_params);                                          *)
(*   - for a statement with list parameters: a struct and the method       *)
(*     into_sql_with_args (add_lst_params), whose body is the instruction  *)
(*     sequence push_lst_args_code.                                        *)
(* The generated code is then run: the iterator is stepped with next(),    *)
(* into_sql_with_args is run one generated statement at a time by each     *)
(* caller.                                                                 *)
(***************************************************************************)
EXTENDS Integers, Sequences, FiniteSets

\* ---------------------------------------------------------------- bounds
\* length of the statement text
MaxText == 3
\* number of distinct scalar parameters of a statement
MaxScalars == 2
\* length of the slice bound to a list parameter
MaxL == 2
\* width of usize in the model (the targets have 16, 32 or 64)
UsizeBits == 3
\* length of the text of a statement shared by two callers, and of the slices they bind
ConcText == 2
ConcL == 1

UsizeMod == 2 ^ UsizeBits
MaxCalls == UsizeMod + MaxScalars + 1

\* ---------------------------------------------------------------- data
Callers == {1, 2}
LstNames == {"x", "y"}
ScalarNames == <<"s", "r", "t", "q">>
Chars == <<"a", "$", "1", ",", "b", "?", "c">>
Digits == <<"0", "1", "2", "3", "4", "5", "6", "7", "8", "9">>

\* The value a caller binds to a scalar field, and to the j-th element of a slice.
\* ToSql values are opaque to the generated code: only their identity is kept.
ScalarValue(name) == <<name, 0>>
ListValue(name, j) == <<name, j>>
Slice(name, len) == [j \in 1..len |-> ListValue(name, j)]

RECURSIVE SortedSeq(_)
SortedSeq(S) ==
    IF S = {} THEN <<>>
    ELSE LET m == CHOOSE a \in S : \A b \in S : a <= b
         IN <<m>> \o SortedSeq(S \ {m})

\* lst_params of sql::StmtParams: every occurrence of a list parameter, in text
\* order, with the offset of the text at which its placeholders are inserted.
LstParams(len) ==
    UNION { LET pos == SortedSeq(P)
            IN { [i \in 1..Cardinality(P) |-> [name |-> nm[i], position |-> pos[i]]]
                 : nm \in [1..Cardinality(P) -> LstNames] }
            : P \in SUBSET (0..len) }

Prefixes == { [symbol |-> "$", numbered |-> TRUE], [symbol |-> "?", numbered |-> FALSE] }

Stmts(len, scalars) ==
    { [text |-> SubSeq(Chars, 1, len),
       pos_params |-> SubSeq(ScalarNames, 1, n),
       lst_params |-> lp,
       param_prefix |-> px]
      : n \in scalars, lp \in LstParams(len), px \in Prefixes }


\* ---------------------------------------------------------------- add_lst_params
Unique == "Unique"
HasDups == "HasDups"
IsADup == "IsADup"

\* ext_lst_params.iter().position(|ext| ext.param.name == name): 0 when there is none
Position(ext, name) ==
    LET hits == { i \in 1..Len(ext) : ext[i].param.name = name }
    IN IF hits = {} THEN 0 ELSE CHOOSE i \in hits : \A j \in hits : i <= j

\* One turn of the loop over lst_params: the occurrence param is classified against
\* the occurrences seen so far. acc = [ext |-> ext_lst_params, fields |-> lst_fields]
\* let ext = &mut ext_lst_params[idx]; ext.usage = ParamUsage::HasDups;
MarkHasDups_Skip(ext, idx) == ext

MarkHasDups(ext, idx) == [ext EXCEPT ![idx].usage = HasDups]

ClassifyOne(acc, param) ==
    LET idx == Position(acc.ext, param.name)
    IN IF idx # 0
       THEN [ext |-> Append(MarkHasDups(acc.ext, idx),
                            [param |-> param, usage |-> IsADup]),
             fields |-> acc.fields]
       ELSE [ext |-> Append(acc.ext, [param |-> param, usage |-> Unique]),
             fields |-> Append(acc.fields, param.name)]

\* The loop over lst_params. The source pushes the first occurrence as Unique before
\* the loop; with nothing seen yet ClassifyOne does the same.
RECURSIVE Classify(_, _, _)
Classify(lst_params, i, acc) ==
    IF i > Len(lst_params) THEN acc
    ELSE Classify(lst_params, i + 1, ClassifyOne(acc, lst_params[i]))

\* The generated statements of into_sql_with_args.
Instr(op, name, from, to) == [op |-> op, name |-> name, from |-> from, to |-> to]

\* ParamUsage::IsADup => sql.push_str(&<name>_list)
IsADupCode_PushAgain(name) == <<Instr("push", name, 0, 0)>>

IsADupCode(name) == <<Instr("push_list", name, 0, 0)>>

\* The statements generated for one occurrence, the text before it included.
OccurrenceCode_ListBeforePush(e, from) ==
    <<Instr("push_text", "", from, e.param.position)>>
    \o (IF e.usage = HasDups THEN <<Instr("let_start", "", 0, 0)>> ELSE <<>>)
    \o (IF e.usage = HasDups THEN <<Instr("let_list", e.param.name, 0, 0)>> ELSE <<>>)
    \o (IF e.usage = IsADup
        THEN IsADupCode(e.param.name)
        ELSE <<Instr("push", e.param.name, 0, 0)>>)

OccurrenceCode(e, from) ==
    <<Instr("push_text", "", from, e.param.position)>>
    \o (IF e.usage = HasDups THEN <<Instr("let_start", "", 0, 0)>> ELSE <<>>)
    \o (IF e.usage = IsADup
        THEN IsADupCode(e.param.name)
        ELSE <<Instr("push", e.param.name, 0, 0)>>)
    \o (IF e.usage = HasDups THEN <<Instr("let_list", e.param.name, 0, 0)>> ELSE <<>>)

\* from = text_end;
NextFrom_Kept(e, from) == from

NextFrom(e, from) == e.param.position

RECURSIVE PushLstArgsCode(_, _, _)
PushLstArgsCode(ext, i, from) ==
    IF i > Len(ext) THEN <<Instr("push_tail", "", from, 0)>>
    ELSE OccurrenceCode(ext[i], from)
         \o PushLstArgsCode(ext, i + 1, NextFrom(ext[i], from))

\* args.push(self.<scalar>) for every scalar field, then push_lst_args_code
ArgsPushCode(pos_params) ==
    [i \in 1..Len(pos_params) |-> Instr("args_push", pos_params[i], 0, 0)]

\* The body of the generated into_sql_with_args, after the two buffers are created:
\* #( args.push(self.#pos_params); )*  #( #push_lst_args_code )*
MethodBody_ListsFirst(pos_params, ext) ==
    PushLstArgsCode(ext, 1, 0) \o ArgsPushCode(pos_params)

MethodBody(pos_params, ext) ==
    ArgsPushCode(pos_params) \o PushLstArgsCode(ext, 1, 0)

add_lst_params(params) ==
    LET c == Classify(params.lst_params, 1, [ext |-> <<>>, fields |-> <<>>])
    IN [kind |-> "lst",
        ext_lst_params |-> c.ext,
        lst_fields |-> c.fields,
        code |-> MethodBody(params.pos_params, c.ext)]

\* ---------------------------------------------------------------- add_pos_params
\* The struct and its iterator: arm i of the match in the generated fn next is
\* (i - 1) => Some(self.item.<pos_params[i]>); `code` holds the arms' field names.
add_pos_params(params) ==
    [kind |-> "pos",
     ext_lst_params |-> <<>>,
     lst_fields |-> <<>>,
     code |-> [i \in 1..Len(params.pos_params) |-> Instr("arm", params.pos_params[i], i - 1, 0)]]

NotExpanded == [kind |-> "none", ext_lst_params |-> <<>>, lst_fields |-> <<>>, code |-> <<>>]


\* ---------------------------------------------------------------- include_sql_helper::push
RECURSIVE to_string(_)
to_string(n) ==
    IF n < 10 THEN <<Digits[n + 1]>>
    ELSE to_string(n \div 10) \o <<Digits[(n % 10) + 1]>>

\* One placeholder: the prefix, followed by the argument's number when the
\* convention numbers its markers.
Placeholder(prefix, number) ==
    <<prefix.symbol>> \o (IF prefix.numbered THEN to_string(number) ELSE <<>>)

\* Appends a placeholder per element of the slice to sql, separated by commas, and
\* the elements to args. r = [sql |-> ..., args |-> ...]
RECURSIVE push(_, _, _, _)
push(slice, j, prefix, r) ==
    IF j > Len(slice) THEN r
    ELSE push(slice, j + 1, prefix,
              [sql |-> r.sql \o (IF j > 1 THEN <<",">> ELSE <<>>)
                             \o Placeholder(prefix, Len(r.args) + 1),
               args |-> Append(r.args, slice[j])])

\* ---------------------------------------------------------------- state
VARIABLES
    stmt,       \* the parsed statement (sql::Stmt with its StmtParams)
    expanded,   \* what include_sql generated for it
    callers,    \* the callers that run into_sql_with_args on the statement
    loc,        \* per caller: the locals of its invocation of into_sql_with_args
    iter,       \* the ArgsIter of a statement with scalar parameters only
    out         \* what its next() returned, call by call

vars == <<stmt, expanded, callers, loc, iter, out>>

NoList == [set |-> FALSE, text |-> <<>>]

\* The locals of an invocation. sql, args, start and <name>_list are the variables of
\* the generated method; frags and slices record, for the properties, the ranges of
\* sql rendered for each occurrence and the ranges of the text copied.
Idle ==
    [status |-> "idle", pc |-> 0, bind |-> <<>>, sql |-> <<>>, args |-> <<>>,
     start |-> 0, list |-> [n \in LstNames |-> NoList], frags |-> <<>>, slices |-> <<>>]

\* let mut args = Vec::new(); let mut sql = String::with_capacity(..);
Entered(bind) ==
    [status |-> "run", pc |-> 1, bind |-> bind, sql |-> <<>>, args |-> <<>>,
     start |-> 0, list |-> [n \in LstNames |-> NoList], frags |-> <<>>, slices |-> <<>>]

\* &text[from..to]: panics unless from <= to <= text.len()
SliceOk(text, from, to) == from <= to /\ to <= Len(text)
Sub(text, from, to) == SubSeq(text, from + 1, to)

\* let start = sql.len();
LetStart_Zero(l) == [l EXCEPT !.start = 0]

LetStart(l) == [l EXCEPT !.start = Len(l.sql)]

\* The effect of one generated statement on the locals l.
ExecInstr(l, ins, st) ==
    CASE ins.op = "args_push" ->
            [l EXCEPT !.args = Append(@, ScalarValue(ins.name))]
      [] ins.op = "push_text" ->
            IF SliceOk(st.text, ins.from, ins.to)
            THEN [l EXCEPT !.sql = @ \o Sub(st.text, ins.from, ins.to),
                           !.slices = Append(@, <<ins.from, ins.to>>)]
            ELSE [l EXCEPT !.status = "panicked"]
      [] ins.op = "let_start" ->
            LetStart(l)
      [] ins.op = "push" ->
            LET r == push(Slice(ins.name, l.bind[ins.name]), 1, st.param_prefix,
                          [sql |-> l.sql, args |-> l.args])
            IN [l EXCEPT !.sql = r.sql, !.args = r.args,
                         !.frags = Append(@, <<Len(l.sql), Len(r.sql)>>)]
      [] ins.op = "push_list" ->
            IF l.list[ins.name].set
            THEN [l EXCEPT !.sql = @ \o l.list[ins.name].text,
                           !.frags = Append(@, <<Len(l.sql),
                                                 Len(l.sql) + Len(l.list[ins.name].text)>>)]
            ELSE [l EXCEPT !.status = "panicked"]
      [] ins.op = "let_list" ->
            [l EXCEPT !.list[ins.name] = [set |-> TRUE, text |-> Sub(l.sql, l.start, Len(l.sql))]]
      [] ins.op = "push_tail" ->
            IF SliceOk(st.text, ins.from, Len(st.text))
            THEN [l EXCEPT !.sql = @ \o Sub(st.text, ins.from, Len(st.text)),
                           !.slices = Append(@, <<ins.from, Len(st.text)>>)]
            ELSE [l EXCEPT !.status = "panicked"]

\* The next generated statement is run; after the last one (sql, args) is returned.
Exec(l, code, st) ==
    LET m == ExecInstr(l, code[l.pc], st)
    IN IF m.status = "panicked" THEN m
       ELSE IF l.pc = Len(code) THEN [m EXCEPT !.status = "done", !.pc = 0]
       ELSE [m EXCEPT !.pc = l.pc + 1]

\* ---------------------------------------------------------------- actions
Statements ==
    { s \in Stmts(MaxText, 0..MaxScalars) : s.lst_params # <<>> \/ s.pos_params # <<>> }

SharedStatements ==
    { s \in Stmts(ConcText, {1}) : s.lst_params # <<>> }

Init ==
    /\ stmt \in Statements
    /\ expanded = NotExpanded
    /\ callers = {1}
    /\ loc = [p \in Callers |-> Idle]
    /\ iter = [status |-> "none", index |-> 0]
    /\ out = <<>>

InitShared ==
    /\ stmt \in SharedStatements
    /\ expanded = NotExpanded
    /\ callers = Callers
    /\ loc = [p \in Callers |-> Idle]
    /\ iter = [status |-> "none", index |-> 0]
    /\ out = <<>>

\* The macro is expanded for the statement.
include_sql ==
    /\ expanded.kind = "none"
    /\ expanded' = IF stmt.lst_params = <<>> THEN add_pos_params(stmt)
                   ELSE add_lst_params(stmt)
    /\ UNCHANGED <<stmt, callers, loc, iter, out>>

Fields == { expanded.lst_fields[i] : i \in 1..Len(expanded.lst_fields) }

\* the longest slice a caller binds
SliceBound == IF callers = Callers THEN ConcL ELSE MaxL

into_sql_with_args_KeepArgs(p) ==
    /\ expanded.kind = "lst"
    /\ p \in callers
    /\ loc[p].status = "idle"
    /\ \E bind \in [Fields -> 0..SliceBound] :
          loc' = [loc EXCEPT ![p] = [Entered(bind) EXCEPT !.args = loc[p].args]]
    /\ UNCHANGED <<stmt, expanded, callers, iter, out>>

\* Caller p builds the struct (a slice per list field, a value per scalar field) and
\* calls into_sql_with_args on it.
into_sql_with_args(p) ==
    /\ expanded.kind = "lst"
    /\ p \in callers
    /\ loc[p].status = "idle"
    /\ \E bind \in [Fields -> 0..SliceBound] :
          loc' = [loc EXCEPT ![p] = Entered(bind)]
    /\ UNCHANGED <<stmt, expanded, callers, iter, out>>

Step_SharedStart(p) ==
    /\ p \in callers
    /\ loc[p].status = "run"
    /\ LET m == Exec(loc[p], expanded.code, stmt)
       IN loc' = [q \in Callers |-> IF q = p THEN m ELSE [loc[q] EXCEPT !.start = m.start]]
    /\ UNCHANGED <<stmt, expanded, callers, iter, out>>

\* Caller p runs the next generated statement.
Step(p) ==
    /\ p \in callers
    /\ loc[p].status = "run"
    /\ loc' = [loc EXCEPT ![p] = Exec(loc[p], expanded.code, stmt)]
    /\ UNCHANGED <<stmt, expanded, callers, iter, out>>

\* Caller p has taken the result and may call again.
Return(p) ==
    /\ p \in callers
    /\ loc[p].status = "done"
    /\ loc' = [loc EXCEPT ![p].status = "idle"]
    /\ UNCHANGED <<stmt, expanded, callers, iter, out>>

\* ---------------------------------------------------------------- ArgsIter
None == [some |-> FALSE, value |-> <<"", 0>>]
Some(v) == [some |-> TRUE, value |-> v]

\* match self.index { i => Some(self.item.<field>), _ => None }
Arm(code, index) ==
    LET hits == { i \in 1..Len(code) : code[i].from = index }
    IN IF hits = {} THEN None
       ELSE Some(ScalarValue(code[CHOOSE i \in hits : TRUE].name))

into_iter ==
    /\ expanded.kind = "pos"
    /\ iter.status = "none"
    /\ iter' = [status |-> "live", index |-> 0]
    /\ UNCHANGED <<stmt, expanded, callers, loc, out>>

\* next() where self.index += 1 does not overflow
next ==
    /\ iter.status = "live"
    /\ Len(out) < MaxCalls
    /\ iter.index + 1 < UsizeMod
    /\ out' = Append(out, Arm(expanded.code, iter.index))
    /\ iter' = [iter EXCEPT !.index = iter.index + 1]
    /\ UNCHANGED <<stmt, expanded, callers, loc>>

\* next() where self.index += 1 overflows, built without overflow checks: it wraps
next_wrap ==
    /\ iter.status = "live"
    /\ Len(out) < MaxCalls
    /\ iter.index + 1 >= UsizeMod
    /\ out' = Append(out, Arm(expanded.code, iter.index))
    /\ iter' = [iter EXCEPT !.index = (iter.index + 1) % UsizeMod]
    /\ UNCHANGED <<stmt, expanded, callers, loc>>

\* next() where self.index += 1 overflows, built with overflow checks: it panics
next_panic ==
    /\ iter.status = "live"
    /\ Len(out) < MaxCalls
    /\ iter.index + 1 >= UsizeMod
    /\ iter' = [iter EXCEPT !.status = "panicked"]
    /\ UNCHANGED <<stmt, expanded, callers, loc, out>>

Next ==
    \/ include_sql
    \/ \E p \in Callers : into_sql_with_args(p)
    \/ \E p \in Callers : Step(p)
    \/ \E p \in Callers : Return(p)
    \/ into_iter
    \/ next
    \/ next_wrap
    \/ next_panic

NextShared ==
    \/ include_sql
    \/ \E p \in Callers : into_sql_with_args(p)
    \/ \E p \in Callers : Step(p)
    \/ \E p \in Callers : Return(p)

Spec == Init /\ [][Next]_vars

SpecShared == InitShared /\ [][NextShared]_vars


\* ---------------------------------------------------------------- properties
\* What the properties are stated in, taken from the statement and the binding alone.
Lp == stmt.lst_params
Occ(name) == Cardinality({ i \in 1..Len(Lp) : Lp[i].name = name })
IsFirst(i) == \A j \in 1..(i - 1) : Lp[j].name # Lp[i].name
FirstIdx == SortedSeq({ i \in 1..Len(Lp) : IsFirst(i) })
FirstNames == [k \in 1..Len(FirstIdx) |-> Lp[FirstIdx[k]].name]

IsListValue(v) == v[2] > 0
IsScalarValue(v) == v[2] = 0
ArgsOf(l, name) == { i \in 1..Len(l.args) : l.args[i][1] = name /\ IsListValue(l.args[i]) }
ListArgs(l) == { i \in 1..Len(l.args) : IsListValue(l.args[i]) }

ScalarValues == [i \in 1..Len(stmt.pos_params) |-> ScalarValue(stmt.pos_params[i])]

RECURSIVE ConcatSlices(_, _, _)
ConcatSlices(names, k, bind) ==
    IF k > Len(names) THEN <<>>
    ELSE Slice(names[k], bind[names[k]]) \o ConcatSlices(names, k + 1, bind)

Done(p) == p \in callers /\ loc[p].status = "done"
Rendered(p) == Done(p) /\ Len(loc[p].frags) = Len(Lp)
FragText(l, i) == Sub(l.sql, l.frags[i][1], l.frags[i][2])
InFrag(l, c) == \E i \in 1..Len(l.frags) : l.frags[i][1] < c /\ c <= l.frags[i][2]

\* the placeholders rendered in the fragments of the occurrences in I
Placeholders(l, I) ==
    { c \in 1..Len(l.sql) :
        /\ l.sql[c] = stmt.param_prefix.symbol
        /\ \E i \in I : l.frags[i][1] < c /\ c <= l.frags[i][2] }

RECURSIVE SumLens(_, _, _)
SumLens(names, k, bind) ==
    IF k > Len(names) THEN 0 ELSE bind[names[k]] + SumLens(names, k + 1, bind)

OccNames == [i \in 1..Len(Lp) |-> Lp[i].name]

RECURSIVE Keep(_, _, _)
Keep(l, c, acc) ==
    IF c > Len(l.sql) THEN acc
    ELSE Keep(l, c + 1, IF InFrag(l, c) THEN acc ELSE Append(acc, l.sql[c]))

\* C1: the arguments returned by into_sql_with_args are the scalar values in
\* pos_params order, once each, followed by the elements of each distinct list in
\* the order of the names' first occurrence, each list in slice order; at no time
\* does a scalar value follow a list element.
C1_ArgumentOrder ==
    \A p \in callers :
        /\ Done(p) =>
              loc[p].args = ScalarValues \o ConcatSlices(FirstNames, 1, loc[p].bind)
        /\ \A i, j \in 1..Len(loc[p].args) :
              i < j => ~(IsListValue(loc[p].args[i]) /\ IsScalarValue(loc[p].args[j]))

C1_Witness ==
    \E p \in callers :
        /\ Done(p)
        /\ Len(stmt.pos_params) >= 2
        /\ Len(Lp) >= 3
        /\ Lp[1].name = "y" /\ Lp[2].name = "x" /\ Lp[3].name = "y"
        /\ loc[p].bind["x"] >= 2 /\ loc[p].bind["y"] >= 2

\* C2: a list name that occurs N > 1 times is rendered N times with the text of
\* its first occurrence, byte for byte, and its L elements are appended once
\* (L arguments, not N * L), also when duplicated names are interleaved.
C2_DuplicateFragments ==
    \A p \in callers :
        Done(p) =>
            /\ Len(loc[p].frags) = Len(Lp)
            /\ \A i, j \in 1..Len(Lp) :
                  Lp[i].name = Lp[j].name => FragText(loc[p], i) = FragText(loc[p], j)
            /\ \A n \in LstNames :
                  Occ(n) > 1 => Cardinality(ArgsOf(loc[p], n)) = loc[p].bind[n]

C2_Witness ==
    \E p \in callers :
        /\ Rendered(p)
        /\ Len(Lp) = 4
        /\ Lp[1].name = "x" /\ Lp[2].name = "y" /\ Lp[3].name = "x" /\ Lp[4].name = "y"
        /\ loc[p].bind["x"] = 2 /\ loc[p].bind["y"] = 1
        /\ stmt.param_prefix.numbered
        /\ FragText(loc[p], 3) = FragText(loc[p], 1)
        /\ Len(FragText(loc[p], 1)) > 0

\* C3 as claimed: the number of list placeholders rendered in the final text equals
\* the number of list elements supplied and appended, duplicates included.
C3_PlaceholdersEqualElements ==
    \A p \in callers :
        Rendered(p) =>
            Cardinality(Placeholders(loc[p], 1..Len(Lp))) = Cardinality(ListArgs(loc[p]))

\* C3 as amended: the placeholders rendered at the first occurrences are as many as
\* the list elements supplied and appended; every occurrence of a name, duplicate
\* or not, renders as many placeholders as the name's slice has elements, so the
\* text holds the sum over all occurrences and the arguments the sum over the
\* distinct names.
C3_PlaceholdersPerOccurrence ==
    \A p \in callers :
        Done(p) =>
            /\ Len(loc[p].frags) = Len(Lp)
            /\ Cardinality(Placeholders(loc[p], { i \in 1..Len(Lp) : IsFirst(i) }))
                 = Cardinality(ListArgs(loc[p]))
            /\ Cardinality(ListArgs(loc[p])) = SumLens(FirstNames, 1, loc[p].bind)
            /\ \A i \in 1..Len(Lp) :
                  Cardinality(Placeholders(loc[p], {i})) = loc[p].bind[Lp[i].name]
            /\ Cardinality(Placeholders(loc[p], 1..Len(Lp)))
                 = SumLens(OccNames, 1, loc[p].bind)

C3_Witness ==
    \E p \in callers :
        /\ Rendered(p)
        /\ \E n \in LstNames : Occ(n) > 1 /\ loc[p].bind[n] >= 2
        /\ Cardinality(Placeholders(loc[p], 1..Len(Lp))) > Cardinality(ListArgs(loc[p]))

\* C4: the final text is the template with one fragment inserted at each list
\* offset: the slices of the template are taken in one forward pass, each with
\* from <= end <= template length, the first from 0, each from the end of the one
\* before, the last to the end; deleting the fragments gives back the template.
C4_TemplateCopiedOnce ==
    \A p \in callers :
        LET l == loc[p] IN
        /\ l.status # "panicked"
        /\ \A k \in 1..Len(l.slices) :
              /\ l.slices[k][1] <= l.slices[k][2]
              /\ l.slices[k][2] <= Len(stmt.text)
              /\ l.slices[k][1] = IF k = 1 THEN 0 ELSE l.slices[k - 1][2]
        /\ Done(p) =>
              /\ Len(l.slices) = Len(Lp) + 1
              /\ l.slices[Len(l.slices)][2] = Len(stmt.text)
              /\ Len(l.frags) = Len(Lp)
              /\ Keep(l, 1, <<>>) = stmt.text

C4_Witness ==
    \E p \in callers :
        /\ Rendered(p)
        /\ Len(Lp) >= 3
        /\ Lp[1].position = 0
        /\ Lp[Len(Lp)].position = Len(stmt.text)
        /\ \A i \in 1..Len(Lp) : Len(FragText(loc[p], i)) > 0
        /\ Len(loc[p].sql) > Len(stmt.text)

\* C6: a list bound to an empty slice does not make assembly fail; nothing is
\* rendered at any occurrence of its name, duplicates included, and no argument
\* is appended for it.
C6_EmptySlice ==
    \A p \in callers :
        /\ loc[p].status # "panicked"
        /\ Done(p) =>
              /\ Len(loc[p].frags) = Len(Lp)
              /\ \A i \in 1..Len(Lp) :
                    loc[p].bind[Lp[i].name] = 0 =>
                        /\ loc[p].frags[i][1] = loc[p].frags[i][2]
                        /\ ArgsOf(loc[p], Lp[i].name) = {}

C6_Witness ==
    \E p \in callers :
        /\ Rendered(p)
        /\ Len(Lp) >= 3
        /\ Lp[1].name = "y" /\ Lp[2].name = "x" /\ Lp[3].name = "x"
        /\ Lp[2].position > 0
        /\ loc[p].bind["x"] = 0 /\ loc[p].bind["y"] >= 1
        /\ Len(loc[p].sql) > Len(stmt.text)

\* C7: assembling the same statement with identical bindings twice gives the same
\* text and the same arguments, whatever was assembled before.
C7_Idempotence ==
    \A p, q \in callers :
        (Done(p) /\ Done(q) /\ loc[p].bind = loc[q].bind) =>
            (loc[p].sql = loc[q].sql /\ loc[p].args = loc[q].args)

C7_Witness ==
    /\ Done(1) /\ Done(2)
    /\ loc[1].bind = loc[2].bind
    /\ \E n \in DOMAIN loc[1].bind : loc[1].bind[n] >= 1 /\ Occ(n) > 1
    /\ Len(loc[1].args) >= 2
    /\ loc[1].sql = loc[2].sql

\* An invocation run alone, from entry to its result.
RECURSIVE RunAlone(_)
RunAlone(l) ==
    IF l.status = "run" THEN RunAlone(Exec(l, expanded.code, stmt)) ELSE l

ResultAlone ==
    \A p \in callers :
        Done(p) =>
            LET r == RunAlone(Entered(loc[p].bind))
            IN r.status = "done" /\ loc[p].sql = r.sql /\ loc[p].args = r.args

OwnWritesOnly ==
    /\ stmt' = stmt
    /\ expanded.kind # "none" => expanded' = expanded
    /\ \E p \in Callers : \A q \in Callers \ {p} : loc'[q] = loc[q]

\* C8: invocations that run at the same time against one statement, under any
\* interleaving of their steps, each write only their own buffers, leave the
\* statement and what was generated for it unmodified, and each return what they
\* would return if run alone.
C8_Isolation == []ResultAlone /\ [][OwnWritesOnly]_vars

C8_Witness ==
    /\ Done(1)
    /\ loc[2].status = "run"
    /\ loc[1].bind # loc[2].bind
    /\ Len(loc[2].frags) >= 1
    /\ Len(loc[2].sql) > 0
    /\ Len(loc[1].args) # Len(loc[2].args)
    /\ \E n \in LstNames : Occ(n) > 1

\* C9 as claimed: the iterator yields the value of each scalar once, in pos_params
\* order, and after the last value every later call returns None.
C9_IteratorExhausted ==
    /\ iter.status # "panicked"
    /\ \A k \in 1..Len(out) :
          out[k] = IF k <= Len(stmt.pos_params)
                   THEN Some(ScalarValue(stmt.pos_params[k]))
                   ELSE None

\* C10: lst_fields holds the distinct names once each in first-occurrence order;
\* a first occurrence is Unique when its name occurs once and HasDups when it
\* occurs more often, every later occurrence is IsADup; an IsADup occurrence comes
\* after the HasDups occurrence of its name, and the generated code records
\* <name>_list before any statement that re-emits it, so no run reads it unset.
C10_Classification ==
    expanded.kind = "lst" =>
        LET ext == expanded.ext_lst_params
            code == expanded.code
        IN /\ Len(ext) = Len(Lp)
           /\ expanded.lst_fields = FirstNames
           /\ \A i \in 1..Len(Lp) :
                 /\ ext[i].param = Lp[i]
                 /\ ext[i].usage = IF ~IsFirst(i) THEN IsADup
                                   ELSE IF Occ(Lp[i].name) > 1 THEN HasDups ELSE Unique
                 /\ ext[i].usage = IsADup =>
                       \E j \in 1..(i - 1) :
                           ext[j].usage = HasDups /\ ext[j].param.name = Lp[i].name
           /\ \A k \in 1..Len(code) :
                 code[k].op = "push_list" =>
                     \E j \in 1..(k - 1) :
                         code[j].op = "let_list" /\ code[j].name = code[k].name
           /\ \A p \in callers : loc[p].status # "panicked"

C10_Witness ==
    /\ expanded.kind = "lst"
    /\ Len(Lp) = 4
    /\ expanded.ext_lst_params[1].usage = Unique
    /\ expanded.ext_lst_params[2].usage = HasDups
    /\ expanded.ext_lst_params[3].usage = IsADup
    /\ expanded.ext_lst_params[4].usage = IsADup
    /\ Done(1)

====
